---- MODULE Spec2Model ----
(***************************************************************************)
(* The resumable batch-generation drivers of examples/pidgin_news.py (the  *)
(* multi-worker driver with the rate gate) and examples/pidgin_simple.py   *)
(* (the simple driver), as a state machine over the three files of an      *)
(* output directory (data.jsonl, failed.jsonl, progress.json), the main    *)
(* thread of the running process and its pool of worker threads.           *)
(*                                                                         *)
(* A sequence of processes is run on one output directory; at most one is  *)
(* alive at a time.  Startup (argument parsing to the last executor.submit)*)
(* is one step: it touches no state another thread reads before the tasks  *)
(* run.  Every later step is one lock operation, one file operation or one *)
(* network call of one thread.  The process may be terminated in any state.*)
(*                                                                         *)
(* A line of an output file is identified by the run and the index of the  *)
(* task that wrote it; the text of the record is the model's output and is *)
(* not modelled.  Time is the reading of time.time(), counted in quarters  *)
(* of a second from a process-relative origin; it advances by the sleeps   *)
(* of the rate gate.                                                       *)
(***************************************************************************)
EXTENDS Integers, Sequences, FiniteSets, TLC

VARIABLES
    driver,             \* which program runs on the directory: "news" or "simple"
    total,              \* len(all_inputs) of the program
    today,              \* the calendar day, the source of the daily seed
    runs,               \* number of processes started so far
    data,               \* data.jsonl: sequence of lines
    failed,             \* failed.jsonl: sequence of lines
    progress,           \* progress.json: a ProgressFile
    ts_data,            \* data_<timestamp>.jsonl of the current run
    ts_failed,          \* failed_<timestamp>.jsonl of the current run
    pc,                 \* main thread: "idle" (no process), "draining", "saving", "summary", "unwinding"
    args,               \* parsed command line of the running process
    seed,               \* seed of the running process
    loaded,             \* the completed set main started from
    successful,         \* the in-memory completed set (successful / processed)
    to_process,         \* the submitted indices, in submission order
    task,               \* per index: state of its process_combo task
    ret,                \* per index: what generate_one returned
    cur,                \* the index the main thread is handling
    write_lock,         \* TRUE when write_lock is held
    rate_limit_lock,    \* TRUE when rate_limit_lock is held
    last_request_time,  \* the global of that name
    clock,              \* time.time()
    gateTime,           \* per index: the time its task stored in last_request_time
    reqTime,            \* per index: time at which its request was posted
    valid_count,
    failed_count,
    completed,
    gen,                \* a call of generate_one on its own (SpecGen)
    prev                \* the last process that ended on the directory: whether
                        \* it read progress.json, how it ended, the indices it
                        \* recorded as failed

vars == << driver, total, today, runs, data, failed, progress, ts_data, ts_failed,
           pc, args, seed, loaded, successful, to_process, task, ret, cur,
           write_lock, rate_limit_lock, last_request_time, clock, gateTime,
           reqTime, valid_count, failed_count, completed, gen, prev >>

(***************************************************************************)
(* Bounds of the model and constants of the program.                       *)
(***************************************************************************)
NumCombos == 2
MaxRuns == 2
MaxDay == 2
WorkerCounts == {1, 2}
NumCounts == {1, 2}

TestCount == 5
MIN_REQUEST_INTERVAL == 2
SimpleSeed == 42

Indices == 0 .. (total - 1)

(***************************************************************************)
(* Helpers on sequences and sets.                                          *)
(***************************************************************************)
Range(s) == { s[k] : k \in 1 .. Len(s) }

Min(S) == CHOOSE m \in S : \A x \in S : m <= x

RECURSIVE sorted(_)
sorted(S) == IF S = {} THEN << >>
             ELSE << Min(S) >> \o sorted(S \ { Min(S) })

Prefix(s, n) == SubSeq(s, 1, IF n < Len(s) THEN n ELSE Len(s))

(***************************************************************************)
(* generate_one, from the rendering of the prompt to its return: what it   *)
(* returns for a combination (the set of fields it carries) and for what   *)
(* the endpoint answers.  The rate gate that precedes it in pidgin_news.py *)
(* is the actions GateAcquire and GatePass below.                          *)
(***************************************************************************)
NewsFields == { "topic", "genre", "setting", "tone", "speaker", "time_period",
                "complexity" }
SimpleFields == { "topic", "genre", "setting", "tone", "speaker", "time_period" }

PromptFields(drv) == IF drv = "news" THEN NewsFields ELSE SimpleFields

\* What the endpoint can answer to one request.
Responses == { "timeout", "http_error", "body_not_json", "api_error", "no_choices",
               "payload_bad_json", "payload_bad_schema", "payload_valid" }

Returned(result, error) == [ result |-> result, error |-> error, raised |-> FALSE ]
Raised(exc) == [ result |-> "unset", error |-> exc, raised |-> TRUE ]
NoRet == [ result |-> "unset", error |-> "unset", raised |-> FALSE ]

\* The try block ended before the validation: a schema failure is raised.
try_request_ValidationOutside(drv, resp) ==
    CASE resp = "payload_valid"      -> Returned("record", "None")
      [] resp = "payload_bad_schema" -> Raised("ValidationError")
      [] OTHER                       -> Returned("None", "Exception")

\* No except clause: every failure of the request is raised.
try_request_Uncaught(drv, resp) ==
    IF resp = "payload_valid" THEN Returned("record", "None") ELSE Raised("Exception")

\* The try block: every exception raised in it is returned as (None, str(e)).
try_request(drv, resp) ==
    CASE resp = "timeout"            -> Returned("None", "Timeout")
      [] resp = "http_error"         -> Returned("None", "HTTPError")
      [] resp = "body_not_json"      -> Returned("None", "JSONDecodeError")
      [] resp = "api_error"          -> IF drv = "news"
                                        THEN Returned("None", "API Error")
                                        ELSE Returned("None", "KeyError")
      [] resp = "no_choices"         -> IF drv = "news"
                                        THEN Returned("None", "No choices in response")
                                        ELSE Returned("None", "KeyError")
      [] resp = "payload_bad_json"   -> Returned("None", "JSONDecodeError")
      [] resp = "payload_bad_schema" -> Returned("None", "ValidationError")
      [] resp = "payload_valid"      -> Returned("record", "None")

\* The prompt is rendered before the try block: combo["genre"] and the other
\* subscripts raise KeyError for a combination that lacks the field.
generate_one(drv, combo, resp) ==
    IF ~ (PromptFields(drv) \subseteq combo)
    THEN Raised("KeyError")
    ELSE try_request(drv, resp)

\* Python's truth value of the first component: None is false, a dumped record true.
Truthy(r) == r.result = "record"

(***************************************************************************)
(* progress.json.                                                          *)
(***************************************************************************)
Absent == [ kind |-> "absent" ]
Malformed == [ kind |-> "malformed" ]

\* The two keys looked up in the other order.
load_news_ProcessedFirst(p) ==
    IF "processed_indices" \in DOMAIN p THEN Range(p.processed_indices)
    ELSE IF "successful_indices" \in DOMAIN p THEN Range(p.successful_indices)
    ELSE {}

\* load_progress of pidgin_news.py on a file that exists and parses.
load_news(p) ==
    IF "successful_indices" \in DOMAIN p THEN Range(p.successful_indices)
    ELSE IF "processed_indices" \in DOMAIN p THEN Range(p.processed_indices)
    ELSE {}

\* The key of the other driver looked up.
load_simple_SuccessfulKey(p) ==
    IF "successful_indices" \in DOMAIN p THEN Range(p.successful_indices) ELSE {}

\* load_progress of pidgin_simple.py on a file that exists and parses.
load_simple(p) ==
    IF "processed_indices" \in DOMAIN p THEN Range(p.processed_indices) ELSE {}

load_progress(drv, p) ==
    IF p.kind = "absent" THEN {}
    ELSE IF drv = "news" THEN load_news(p) ELSE load_simple(p)

\* The number of successes stored as the total.
dump_news_CountAsTotal(S, tot, sd) ==
    [ kind |-> "json", successful_indices |-> sorted(S), seed |-> sd,
      total |-> Cardinality(S), successful_count |-> Cardinality(S) ]

\* What save_progress dumps.
dump_news(S, tot, sd) ==
    [ kind |-> "json", successful_indices |-> sorted(S), seed |-> sd,
      total |-> tot, successful_count |-> Cardinality(S) ]

dump_simple(S, tot) ==
    [ kind |-> "json", processed_indices |-> sorted(S), seed |-> SimpleSeed,
      total |-> tot ]

dump_progress(drv, S, tot, sd) ==
    IF drv = "news" THEN dump_news(S, tot, sd) ELSE dump_simple(S, tot)

\* The indices a progress file lists, whatever its field name.
FileIndices(p) ==
    IF p.kind # "json" THEN {}
    ELSE IF "successful_indices" \in DOMAIN p THEN Range(p.successful_indices)
    ELSE Range(p.processed_indices)

(***************************************************************************)
(* The state of a directory with no process running.                       *)
(***************************************************************************)
NoArgs == [ test |-> FALSE, no_resume |-> FALSE, timestamp |-> FALSE,
            workers |-> 0, num |-> 0, key |-> FALSE ]

NoCall == [ pc |-> "none", drv |-> "none", combo |-> {}, resp |-> "none",
            ret |-> NoRet ]

NoPrev == [ resumed |-> FALSE, exit |-> "none", failed |-> {}, key |-> FALSE ]

\* The memory of a process: the values of the module globals and of main's
\* locals before main has run.
FreshMemory ==
    /\ seed = 0
    /\ loaded = {}
    /\ successful = {}
    /\ to_process = << >>
    /\ task = [ i \in Indices |-> "none" ]
    /\ ret = [ i \in Indices |-> NoRet ]
    /\ cur = -1
    /\ write_lock = FALSE
    /\ rate_limit_lock = FALSE
    /\ last_request_time = 0
    /\ clock = MIN_REQUEST_INTERVAL
    /\ gateTime = [ i \in Indices |-> -1 ]
    /\ reqTime = [ i \in Indices |-> -1 ]
    /\ valid_count = 0
    /\ failed_count = 0
    /\ completed = 0

InitDirOf(drv, tot) ==
    /\ driver = drv
    /\ total = tot
    /\ today = 1
    /\ runs = 0
    /\ data = << >>
    /\ failed = << >>
    /\ progress = Absent
    /\ ts_data = << >>
    /\ ts_failed = << >>
    /\ pc = "idle"
    /\ args = NoArgs
    /\ FreshMemory
    /\ gen = NoCall
    /\ prev = NoPrev

InitDir(drv) == InitDirOf(drv, NumCombos)

Init == InitDir("news")

(***************************************************************************)
(* main, from the parsed arguments to the submission of the tasks.         *)
(***************************************************************************)
\* The command lines tried.  --num is not read in test mode, and
\* pidgin_simple.py has no --timestamp.
ArgSpace(drv) ==
    { a \in [ test : BOOLEAN, no_resume : BOOLEAN, timestamp : BOOLEAN,
              workers : WorkerCounts, num : NumCounts ] :
        /\ a.test => a.num = 1
        /\ drv = "simple" => ~ a.timestamp }

\* The parsed command line of a process together with its environment:
\* whether OPENROUTER_API_KEY is set to a non-empty value.
Process(a, key) ==
    [ test |-> a.test, no_resume |-> a.no_resume, timestamp |-> a.timestamp,
      workers |-> a.workers, num |-> a.num, key |-> key ]

\* The credential never looked at.
KeyMissing_Unchecked(key) == FALSE

\* if not api_key:
KeyMissing(key) == ~ key

\* Whether main reads progress.json at all.
ReadsProgress(drv, a) == ~ (a.timestamp \/ a.no_resume)

\* A file that does not parse read as if it were an empty object.
LoadRaises_Tolerant(p) == FALSE

\* Whether json.load raises in load_progress: the file exists and does not parse.
LoadRaises(p) == p.kind = "malformed"

\* The progress file never loaded: every run starts from the empty set.
InitialSuccessful_Empty(drv, a, p) == {}

\* The completed set main starts from.
InitialSuccessful(drv, a, p) ==
    IF a.test /\ a.no_resume THEN {}
    ELSE IF ReadsProgress(drv, a) THEN load_progress(drv, p)
    ELSE {}

\* The unlink not restricted to --no-resume: every test run clears.
ClearsFiles_EveryTest(a) == a.test

\* Whether main unlinks the two output files before the run.
ClearsFiles(a) == a.test /\ a.no_resume

\* The list without its filter: every index, completed or not.
Unprocessed_Unfiltered(tot, S) == sorted(0 .. (tot - 1))

\* [i for i in range(len(all_inputs)) if i not in successful]
Unprocessed(tot, S) == sorted({ i \in 0 .. (tot - 1) : i \notin S })

\* The list without the slice: everything unprocessed is submitted.
ToProcess_All(a, unprocessed) == unprocessed

\* unprocessed[:5] in test mode, unprocessed[: args.num] otherwise
ToProcess(a, unprocessed) ==
    IF a.test THEN Prefix(unprocessed, TestCount) ELSE Prefix(unprocessed, a.num)

\* The seed main passes to generate_inputs and to save_progress.
RunSeed(drv, day) == IF drv = "news" THEN day ELSE SimpleSeed

\* The memory of a process that has not started main's work.
ResetMemory ==
    /\ seed' = 0
    /\ loaded' = {}
    /\ successful' = {}
    /\ to_process' = << >>
    /\ task' = [ i \in Indices |-> "none" ]
    /\ ret' = [ i \in Indices |-> NoRet ]
    /\ cur' = -1
    /\ write_lock' = FALSE
    /\ rate_limit_lock' = FALSE
    /\ last_request_time' = 0
    /\ clock' = MIN_REQUEST_INTERVAL
    /\ gateTime' = [ i \in Indices |-> -1 ]
    /\ reqTime' = [ i \in Indices |-> -1 ]
    /\ valid_count' = 0
    /\ failed_count' = 0
    /\ completed' = 0

\* The tasks whose {combo, error} line the running process has appended.
FailedNow == { i \in Indices : task[i] \in { "done", "handled" } /\ ~ Truthy(ret[i]) }

\* The process ends (returns, exits, dies or is terminated).  Its timestamped
\* files are named by no later process and leave the model.
End(a, key, status) ==
    /\ pc' = "idle"
    /\ ts_data' = << >>
    /\ ts_failed' = << >>
    /\ args' = NoArgs
    /\ prev' = [ resumed |-> ReadsProgress(driver, a), exit |-> status,
                 failed |-> FailedNow, key |-> key ]
    /\ ResetMemory
    /\ UNCHANGED gen

\* main started with one of the command lines of A.
StartRunFrom(A) ==
    /\ pc = "idle"
    /\ runs < MaxRuns
    /\ \E key \in BOOLEAN, a \in A, day \in { today, today + 1 } :
         LET S0 == InitialSuccessful(driver, a, progress)
             tp == ToProcess(a, Unprocessed(total, S0))
         IN
         /\ day <= MaxDay
         /\ driver = "simple" => day = today
         /\ runs' = runs + 1
         /\ today' = day
         /\ UNCHANGED << driver, total, progress >>
         /\ IF KeyMissing(key)
            THEN \* sys.exit(1): OPENROUTER_API_KEY not set
                 /\ End(a, key, "nokey")
                 /\ UNCHANGED << data, failed >>
            ELSE IF ReadsProgress(driver, a) /\ LoadRaises(progress)
            THEN \* the exception leaves main: the process dies
                 /\ End(a, key, "badprogress")
                 /\ UNCHANGED << data, failed >>
            ELSE /\ ts_data' = << >>
                 /\ ts_failed' = << >>
                 /\ IF ClearsFiles(a) /\ ~ a.timestamp
                    THEN data' = << >> /\ failed' = << >>
                    ELSE UNCHANGED << data, failed >>
                 /\ IF tp = << >>
                    THEN \* "No unprocessed combinations to generate!"
                         End(a, key, "nothing")
                    ELSE /\ pc' = "draining"
                         /\ args' = Process(a, key)
                         /\ seed' = RunSeed(driver, day)
                         /\ successful' = S0
                         /\ to_process' = tp
                         /\ task' = [ i \in Indices |->
                                        IF i \in Range(tp) THEN "queued" ELSE "none" ]
                         /\ ret' = [ i \in Indices |-> NoRet ]
                         /\ cur' = -1
                         /\ write_lock' = FALSE
                         /\ rate_limit_lock' = FALSE
                         /\ last_request_time' = 0
                         /\ clock' = MIN_REQUEST_INTERVAL
                         /\ gateTime' = [ i \in Indices |-> -1 ]
                         /\ reqTime' = [ i \in Indices |-> -1 ]
                         /\ valid_count' = 0
                         /\ failed_count' = 0
                         /\ completed' = 0
                         /\ loaded' = S0
                         /\ UNCHANGED << prev, gen >>

StartRun == StartRunFrom(ArgSpace(driver))

(***************************************************************************)
(* process_combo, run by a worker thread of the pool.                      *)
(***************************************************************************)
\* The pool runs its tasks while main is in the with block of the executor,
\* also while an exception leaves it (shutdown waits for the tasks).
Alive == pc \in { "draining", "saving", "unwinding" }

Running(i) == task[i] \in { "started", "gate", "ready", "got", "writing" }

Pos(i) == CHOOSE k \in 1 .. Len(to_process) : to_process[k] = i

\* A pool without a limit on its threads: the oldest queued work item starts.
PoolCanStart_Unbounded(i) ==
    /\ task[i] = "queued"
    /\ \A j \in Range(to_process) : Pos(j) < Pos(i) => task[j] # "queued"

\* The pool has max_workers threads, each taking the oldest queued work item.
PoolCanStart(i) ==
    /\ task[i] = "queued"
    /\ \A j \in Range(to_process) : Pos(j) < Pos(i) => task[j] # "queued"
    /\ Cardinality({ j \in Indices : Running(j) }) < args.workers

TaskStart(i) ==
    /\ Alive
    /\ PoolCanStart(i)
    /\ task' = [ task EXCEPT ![i] = IF driver = "news" THEN "started" ELSE "ready" ]
    /\ UNCHANGED << driver, total, today, runs, data, failed, progress, ts_data,
                    ts_failed, pc, args, seed, successful, to_process, ret, cur,
                    write_lock, rate_limit_lock, last_request_time, clock, reqTime,
                    valid_count, failed_count, completed, prev, gen, loaded,
                    gateTime >>

\* with rate_limit_lock:
GateAcquire(i) ==
    /\ Alive
    /\ task[i] = "started"
    /\ ~ rate_limit_lock
    /\ rate_limit_lock' = TRUE
    /\ task' = [ task EXCEPT ![i] = "gate" ]
    /\ UNCHANGED << driver, total, today, runs, data, failed, progress, ts_data,
                    ts_failed, pc, args, seed, successful, to_process, ret, cur,
                    write_lock, last_request_time, clock, reqTime,
                    valid_count, failed_count, completed, prev, gen, loaded,
                    gateTime >>

\* The gate without its sleep.
GateExitTime_NoSleep(now, last) == now

\* The time at which the body of the gate is left when entered at time now:
\* time.sleep returns when the remainder of the interval has passed.
GateExitTime(now, last) ==
    IF now - last < MIN_REQUEST_INTERVAL
    THEN now + (MIN_REQUEST_INTERVAL - (now - last))
    ELSE now

\* The body of the with block and the release of the lock.
GatePass(i) ==
    /\ Alive
    /\ task[i] = "gate"
    /\ clock' = GateExitTime(clock, last_request_time)
    /\ last_request_time' = clock'
    /\ gateTime' = [ gateTime EXCEPT ![i] = clock' ]
    /\ rate_limit_lock' = FALSE
    /\ task' = [ task EXCEPT ![i] = "ready" ]
    /\ UNCHANGED << driver, total, today, runs, data, failed, progress, ts_data,
                    ts_failed, pc, args, seed, successful, to_process, ret, cur,
                    write_lock, reqTime, valid_count, failed_count, completed, prev,
                    gen, loaded >>

\* What the endpoint answers in the runs of the driver.
DriverResponses == { "payload_valid", "http_error" }

\* The combination main hands to the task: every dimension is present.
ComboOf(drv, i) == PromptFields(drv)

\* A failed request posted again.
AfterRequest_Retry(r) ==
    IF r.raised THEN "raised" ELSE IF Truthy(r) THEN "got" ELSE "ready"

\* Where process_combo goes on after generate_one: an exception ends the
\* task; a return value, result or error, is written to one of the files.
AfterRequest(r) == IF r.raised THEN "raised" ELSE "got"

\* The rest of generate_one: the request is posted and answered.  A call
\* that raises ends the task with the exception stored in its future.
\* R is the set of answers the endpoint may give to this request.
RequestWith(i, R) ==
    /\ Alive
    /\ task[i] = "ready"
    /\ \E resp \in R :
         LET r == generate_one(driver, ComboOf(driver, i), resp) IN
         /\ ret' = [ ret EXCEPT ![i] = r ]
         /\ task' = [ task EXCEPT ![i] = AfterRequest(r) ]
    /\ reqTime' = [ reqTime EXCEPT ![i] = clock ]
    /\ UNCHANGED << driver, total, today, runs, data, failed, progress, ts_data,
                    ts_failed, pc, args, seed, successful, to_process, cur,
                    write_lock, rate_limit_lock, last_request_time, clock,
                    valid_count, failed_count, completed, prev, gen, loaded,
                    gateTime >>

Request(i) == RequestWith(i, DriverResponses)

\* The lock not honoured: a thread enters whether or not it is held.
CanTakeWriteLock_Unguarded == TRUE

\* Whether a thread that wants write_lock may take it.
CanTakeWriteLock == ~ write_lock

\* with write_lock: (process_combo)
WriteAcquire(i) ==
    /\ Alive
    /\ task[i] = "got"
    /\ CanTakeWriteLock
    /\ write_lock' = TRUE
    /\ task' = [ task EXCEPT ![i] = "writing" ]
    /\ UNCHANGED << driver, total, today, runs, data, failed, progress, ts_data,
                    ts_failed, pc, args, seed, successful, to_process, ret, cur,
                    rate_limit_lock, last_request_time, clock, reqTime,
                    valid_count, failed_count, completed, prev, gen, loaded,
                    gateTime >>

\* The test on result left out: every outcome goes to the success file.
WritesSuccess_Always(r) == TRUE

\* Whether process_combo writes to the success file.
WritesSuccess(r) == Truthy(r)

\* The other tasks that are inside a write to the file task i writes to.
Colliding(i) ==
    { j \in Indices \ { i } :
        task[j] = "writing" /\ WritesSuccess(ret[j]) = WritesSuccess(ret[i]) }

\* all_inputs[i] of a process whose seed is sd, as the number of the
\* combination in the unshuffled list of valid combinations.  random.seed(sd)
\* followed by random.shuffle(valid) is a permutation fixed by sd; it is
\* modelled as the rotation by sd, which differs between two seeds that
\* differ by less than the length of the list.
InputAt(sd, tot, i) == (i + sd) % tot

\* The line a task appends.  It is whole when no other thread writes to the
\* same file during the write; otherwise the two writes may interleave.
Line(i) == [ idx |-> i, run |-> runs, whole |-> Colliding(i) = {},
             combo |-> InputAt(seed, total, i) ]
FailedLine(i) == [ idx |-> i, run |-> runs, whole |-> Colliding(i) = {},
                   combo |-> InputAt(seed, total, i), error |-> ret[i].error ]

\* The append, the release of the lock and the return of (index, bool(result)).
WriteAppend(i) ==
    /\ Alive
    /\ task[i] = "writing"
    /\ IF WritesSuccess(ret[i])
       THEN /\ IF args.timestamp
               THEN ts_data' = Append(ts_data, Line(i)) /\ UNCHANGED data
               ELSE data' = Append(data, Line(i)) /\ UNCHANGED ts_data
            /\ UNCHANGED << failed, ts_failed >>
       ELSE /\ IF args.timestamp
               THEN ts_failed' = Append(ts_failed, FailedLine(i)) /\ UNCHANGED failed
               ELSE failed' = Append(failed, FailedLine(i)) /\ UNCHANGED ts_failed
            /\ UNCHANGED << data, ts_data >>
    /\ write_lock' = FALSE
    /\ task' = [ task EXCEPT ![i] = "done" ]
    /\ UNCHANGED << driver, total, today, runs, progress, pc, args, seed, successful,
                    to_process, ret, cur, rate_limit_lock, last_request_time, clock,
                    reqTime, valid_count, failed_count, completed, prev, gen, loaded,
                    gateTime >>

(***************************************************************************)
(* main, the loop over as_completed.                                       *)
(***************************************************************************)
\* The second component ignored: every finished task counts as a success.
Success_Always(i) == TRUE

\* success, the second component of future.result()
Success(i) == Truthy(ret[i])

\* The test on success left out: every finished task is added.
AddsToCompleted_Always(drv, success) == TRUE

\* Whether main adds the index of a finished task to the completed set:
\* pidgin_news.py only "if success", pidgin_simple.py always.
AddsToCompleted(drv, success) == IF drv = "news" THEN success ELSE TRUE

\* The test on args.timestamp left out.
SavesProgress_IgnoringTimestamp(drv, a, success) ==
    IF drv = "news" THEN success ELSE TRUE

\* Whether main calls save_progress after a finished task.
SavesProgress(drv, a, success) ==
    IF drv = "news" THEN success /\ ~ a.timestamp ELSE TRUE

\* A finished task after which progress.json is not written.
Handle(i) ==
    /\ pc = "draining"
    /\ task[i] = "done"
    /\ ~ SavesProgress(driver, args, Success(i))
    /\ successful' = IF AddsToCompleted(driver, Success(i))
                     THEN successful \cup { i } ELSE successful
    /\ completed' = completed + 1
    /\ IF Success(i)
       THEN valid_count' = valid_count + 1 /\ UNCHANGED failed_count
       ELSE failed_count' = failed_count + 1 /\ UNCHANGED valid_count
    /\ task' = [ task EXCEPT ![i] = "handled" ]
    /\ UNCHANGED << driver, total, today, runs, data, failed, progress, ts_data,
                    ts_failed, pc, args, seed, to_process, ret, cur, write_lock,
                    rate_limit_lock, last_request_time, clock, reqTime, prev, gen, loaded,
                    gateTime >>

\* A finished task after which progress.json is written: the index joins the
\* completed set, save_progress takes write_lock and opens the file for
\* writing, which truncates it.
SaveOpen(i) ==
    /\ pc = "draining"
    /\ task[i] = "done"
    /\ SavesProgress(driver, args, Success(i))
    /\ CanTakeWriteLock
    /\ successful' = IF AddsToCompleted(driver, Success(i))
                     THEN successful \cup { i } ELSE successful
    /\ write_lock' = TRUE
    /\ progress' = Malformed
    /\ cur' = i
    /\ pc' = "saving"
    /\ UNCHANGED << driver, total, today, runs, data, failed, ts_data, ts_failed,
                    args, seed, to_process, task, ret, rate_limit_lock,
                    last_request_time, clock, reqTime, valid_count, failed_count,
                    completed, prev, gen, loaded,
                    gateTime >>

\* json.dump, the close of the file, the release of the lock, and the
\* counters of the loop body.
SaveDump ==
    /\ pc = "saving"
    /\ progress' = dump_progress(driver, successful, total, seed)
    /\ write_lock' = FALSE
    /\ completed' = completed + 1
    /\ IF Success(cur)
       THEN valid_count' = valid_count + 1 /\ UNCHANGED failed_count
       ELSE failed_count' = failed_count + 1 /\ UNCHANGED valid_count
    /\ task' = [ task EXCEPT ![cur] = "handled" ]
    /\ cur' = -1
    /\ pc' = "draining"
    /\ UNCHANGED << driver, total, today, runs, data, failed, ts_data, ts_failed,
                    args, seed, successful, to_process, ret, rate_limit_lock,
                    last_request_time, clock, reqTime, prev, gen, loaded,
                    gateTime >>

\* as_completed is exhausted: the summary is printed.
Summary ==
    /\ pc = "draining"
    /\ \A i \in Range(to_process) : task[i] = "handled"
    /\ pc' = "summary"
    /\ UNCHANGED << driver, total, today, runs, data, failed, progress, ts_data,
                    ts_failed, args, seed, successful, to_process, task, ret, cur,
                    write_lock, rate_limit_lock, last_request_time, clock, reqTime,
                    valid_count, failed_count, completed, prev, gen, loaded,
                    gateTime >>

\* main returns and the process exits.
Exit ==
    /\ pc = "summary"
    /\ End(args, args.key, "summary")
    /\ UNCHANGED << driver, total, today, runs, data, failed, progress >>

\* The process is terminated from outside.
Kill ==
    /\ pc # "idle"
    /\ End(args, args.key, "killed")
    /\ UNCHANGED << driver, total, today, runs, data, failed, progress >>

Next ==
    \/ StartRun
    \/ \E i \in Indices : TaskStart(i)
    \/ \E i \in Indices : GateAcquire(i)
    \/ \E i \in Indices : GatePass(i)
    \/ \E i \in Indices : Request(i)
    \/ \E i \in Indices : WriteAcquire(i)
    \/ \E i \in Indices : WriteAppend(i)
    \/ \E i \in Indices : Handle(i)
    \/ \E i \in Indices : SaveOpen(i)
    \/ SaveDump
    \/ Summary
    \/ Exit
    \/ Kill

Spec == Init /\ [][Next]_vars

(***************************************************************************)
(* pidgin_simple.py on a directory of its own.                             *)
(***************************************************************************)
InitSimple == InitDir("simple")

NextSimple ==
    \/ StartRun
    \/ \E i \in Indices : TaskStart(i)
    \/ \E i \in Indices : Request(i)
    \/ \E i \in Indices : WriteAcquire(i)
    \/ \E i \in Indices : WriteAppend(i)
    \/ \E i \in Indices : SaveOpen(i)
    \/ SaveDump
    \/ Summary
    \/ Exit
    \/ Kill

SpecSimple == InitSimple /\ [][NextSimple]_vars

(***************************************************************************)
(* generate_one called on its own, on any combination and any answer of    *)
(* the endpoint.                                                           *)
(***************************************************************************)
\* The combinations tried: every set of fields, complete or not.
GenCombos == SUBSET NewsFields

DirIdle ==
    /\ total = NumCombos
    /\ today = 1
    /\ runs = 0
    /\ data = << >>
    /\ failed = << >>
    /\ progress = Absent
    /\ ts_data = << >>
    /\ ts_failed = << >>
    /\ pc = "idle"
    /\ args = NoArgs
    /\ FreshMemory
    /\ prev = NoPrev

InitGen ==
    /\ driver \in { "news", "simple" }
    /\ DirIdle
    /\ \E c \in GenCombos, resp \in Responses :
         gen = [ pc |-> "call", drv |-> driver, combo |-> c, resp |-> resp,
                 ret |-> NoRet ]

GenCall ==
    /\ gen.pc = "call"
    /\ LET r == generate_one(gen.drv, gen.combo, gen.resp) IN
       gen' = [ gen EXCEPT !.ret = r,
                           !.pc = IF r.raised THEN "raised" ELSE "returned" ]
    /\ UNCHANGED << driver, total, today, runs, data, failed, progress, ts_data,
                    ts_failed, pc, args, seed, loaded, successful, to_process,
                    task, ret, cur, write_lock, rate_limit_lock,
                    last_request_time, clock, gateTime, reqTime, valid_count,
                    failed_count, completed, prev >>

NextGen == GenCall

SpecGen == InitGen /\ [][NextGen]_vars

(***************************************************************************)
(* load_progress of pidgin_news.py called on its own, on any progress file *)
(* it can meet: none, one that does not parse, or a JSON object with any   *)
(* of the two keys.                                                        *)
(***************************************************************************)
MaxStored == 2

\* The lists a key can hold; an index may be stored more than once.
IndexLists == UNION { [ 1 .. n -> 0 .. (NumCombos - 1) ] : n \in 0 .. MaxStored }

LoadFiles ==
    { Absent, Malformed, [ kind |-> "json" ] }
    \cup { [ kind |-> "json", successful_indices |-> l ] : l \in IndexLists }
    \cup { [ kind |-> "json", processed_indices |-> l ] : l \in IndexLists }
    \cup { [ kind |-> "json", successful_indices |-> l1, processed_indices |-> l2 ] :
             l1 \in IndexLists, l2 \in IndexLists }

InitLoad ==
    /\ driver = "news"
    /\ total = NumCombos
    /\ today = 1
    /\ runs = 0
    /\ data = << >>
    /\ failed = << >>
    /\ ts_data = << >>
    /\ ts_failed = << >>
    /\ pc = "idle"
    /\ args = NoArgs
    /\ FreshMemory
    /\ prev = NoPrev
    /\ gen = [ NoCall EXCEPT !.pc = "load" ]
    /\ progress \in LoadFiles

\* The call returns the set, or json.load raises on a file that does not parse.
LoadCall ==
    /\ gen.pc = "load"
    /\ IF progress.kind = "malformed"
       THEN gen' = [ gen EXCEPT !.pc = "raised" ] /\ UNCHANGED loaded
       ELSE /\ gen' = [ gen EXCEPT !.pc = "returned" ]
            /\ loaded' = load_progress(driver, progress)
    /\ UNCHANGED << driver, total, today, runs, data, failed, progress, ts_data,
                    ts_failed, pc, args, seed, successful, to_process,
                    task, ret, cur, write_lock, rate_limit_lock,
                    last_request_time, clock, gateTime, reqTime, valid_count,
                    failed_count, completed, prev >>

NextLoad == LoadCall

SpecLoad == InitLoad /\ [][NextLoad]_vars

(***************************************************************************)
(* Properties.                                                             *)
(***************************************************************************)
Submitted == Range(to_process)

\* A step in which main starts a run and submits its tasks.
Submits == pc = "idle" /\ pc' = "draining"

\* C1, as stated: an index that progress.json lists when a run starts is not
\* submitted by that run, unless the run was started with --no-resume.
C1_NoResubmitUnlessNoResume ==
    [][ (Submits /\ ~ args'.no_resume)
          => Range(to_process') \cap FileIndices(progress) = {} ]_vars

\* C1, amended: an index that progress.json lists when a run starts is not
\* submitted by that run, unless the run was started with --no-resume or with
\* --timestamp.
C1_NoResubmitWhenResumed ==
    [][ (Submits /\ ~ args'.no_resume /\ ~ args'.timestamp)
          => Range(to_process') \cap FileIndices(progress) = {} ]_vars

\* A resumed run has just submitted its tasks and progress.json lists indices.
C1_Witness ==
    /\ pc = "draining"
    /\ ~ args.no_resume /\ ~ args.timestamp
    /\ FileIndices(progress) # {}
    /\ \A i \in Submitted : task[i] = "queued"

\* No index has two records in data.jsonl.
OneRecordPerIndex(f) ==
    \A k1, k2 \in 1 .. Len(f) : f[k1].idx = f[k2].idx => k1 = k2

\* The indices with a record that an earlier process appended to data.jsonl.
EarlierSuccesses == { data[k].idx : k \in { n \in 1 .. Len(data) : data[n].run < runs } }

\* C2: when a run was terminated and the next run is started in resume mode,
\* that run submits none of the indices that succeeded in the terminated run,
\* and once it has completed data.jsonl holds exactly one record per index
\* that succeeded in either run: no index is recorded twice.
C2_ResumeNoDoubleCount ==
    ( /\ runs = 2
      /\ prev.exit = "killed" /\ prev.resumed
      /\ pc # "idle"
      /\ ~ args.no_resume /\ ~ args.timestamp )
    => /\ Submitted \cap EarlierSuccesses = {}
       /\ pc = "summary" => OneRecordPerIndex(data)

\* What the next resumed invocation computes as its unprocessed list from the
\* progress file as it is now.
NextUnprocessed == Unprocessed(total, load_progress(driver, progress))

\* The output file with the failures of the running process.
FailedFile == IF args.timestamp THEN ts_failed ELSE failed
\* The output file with the successes of the running process.
OutputFile == IF args.timestamp THEN ts_data ELSE data

\* The lines the running process has appended to a file.
OwnLines(f) == { k \in 1 .. Len(f) : f[k].run = runs }

C4_FailedNotMarked ==
    \A i \in Indices :
      (pc # "idle" /\ task[i] = "handled" /\ ~ Success(i))
      => i \notin FileIndices(progress)

\* The places of the lines of the running process for index i in a file.
OwnLinesOf(f, i) == { k \in OwnLines(f) : f[k].idx = i }

\* C5: a run with more than one worker in which every request succeeded has,
\* at its summary, exactly one whole line per submitted index in the success
\* file, none in the failure file, and a completed set equal to the set main
\* started from plus the submitted indices; unless the run is timestamped,
\* progress.json lists exactly that set, each index once.
C5_AllSucceedOneLineEach ==
    ( /\ pc = "summary"
      /\ args.workers > 1
      /\ \A i \in Submitted : Success(i) )
    => /\ \A i \in Submitted : Cardinality(OwnLinesOf(OutputFile, i)) = 1
       /\ \A k \in OwnLines(OutputFile) :
            OutputFile[k].idx \in Submitted /\ OutputFile[k].whole
       /\ OwnLines(FailedFile) = {}
       /\ successful = loaded \cup Submitted
       /\ ~ args.timestamp
          => /\ progress.kind = "json"
             /\ Range(progress.successful_indices) = loaded \cup Submitted
             /\ Len(progress.successful_indices) = Cardinality(loaded \cup Submitted)

\* Two workers, two tasks, both succeeded, and the second task submitted wrote
\* its line first.
C5_Witness ==
    /\ pc = "summary"
    /\ args.workers = 2
    /\ ~ args.timestamp
    /\ Len(to_process) = 2
    /\ \A i \in Submitted : Success(i)
    /\ \E k1, k2 \in OwnLines(data) :
         k1 < k2 /\ data[k1].idx = to_process[2] /\ data[k2].idx = to_process[1]

\* The worker threads that are inside a with write_lock block.
InWrite == { i \in Indices : task[i] = "writing" }

\* The number of threads inside a write to one of the three files.
Writers == Cardinality(InWrite) + (IF pc = "saving" THEN 1 ELSE 0)

\* C6: at most one thread at a time is inside a write to the success file,
\* the failure file or progress.json, and write_lock is held while it is.
C6_WritesMutuallyExclusive ==
    /\ Writers <= 1
    /\ Writers = 1 => write_lock

\* The main thread rewrites progress.json while a worker waits for the lock.
C6_Witness ==
    /\ pc = "saving"
    /\ write_lock
    /\ \E j \in Indices : task[j] = "got"

(***************************************************************************)
(* One run of pidgin_news.py from an empty directory, with time passing    *)
(* between the steps of the threads.                                       *)
(***************************************************************************)
MaxClock == 5

\* Time passes while the process runs.
Tick ==
    /\ Alive
    /\ clock < MaxClock
    /\ clock' = clock + 1
    /\ UNCHANGED << driver, total, today, runs, data, failed, progress, ts_data,
                    ts_failed, pc, args, seed, loaded, successful, to_process,
                    task, ret, cur, write_lock, rate_limit_lock,
                    last_request_time, gateTime, reqTime, valid_count,
                    failed_count, completed, gen, prev >>

NextTimed ==
    \/ Tick
    \/ Next /\ runs' <= 1

SpecTimed == Init /\ [][NextTimed]_vars

Apart(t1, t2) ==
    \/ t1 - t2 >= MIN_REQUEST_INTERVAL
    \/ t2 - t1 >= MIN_REQUEST_INTERVAL

HandledSuccesses == { i \in Indices : task[i] = "handled" /\ Success(i) }

\* C10: at every point of a non-timestamped run, progress.json lists every
\* success main has handled so far, so that an interruption there loses none.
C10_HandledSuccessesDurable ==
    (pc # "idle" /\ ~ args.timestamp)
    => HandledSuccesses \subseteq FileIndices(progress)

(***************************************************************************)
(* Both drivers, not terminated from outside, their threads scheduled      *)
(* fairly: every request is answered or times out (timeout=60).            *)
(***************************************************************************)
InitLive == InitDir("news") \/ InitDir("simple")

RunStep ==
    \/ \E i \in Indices : TaskStart(i)
    \/ \E i \in Indices : GateAcquire(i)
    \/ \E i \in Indices : GatePass(i)
    \/ \E i \in Indices : Request(i)
    \/ \E i \in Indices : WriteAcquire(i)
    \/ \E i \in Indices : WriteAppend(i)
    \/ \E i \in Indices : Handle(i)
    \/ \E i \in Indices : SaveOpen(i)
    \/ SaveDump
    \/ Summary
    \/ Exit

NextLive ==
    \/ StartRun
    \/ RunStep

SpecLive == InitLive /\ [][NextLive]_vars /\ WF_vars(RunStep)

\* C8: whatever the outcomes of the tasks, a run that has submitted its tasks
\* reaches its summary, where every submitted task has been handled and
\* valid_count + failed_count is the number of submitted indices.
C8_BatchAlwaysDrains ==
    /\ [] ( pc = "summary"
            => /\ \A i \in Submitted : task[i] = "handled"
               /\ valid_count + failed_count = Len(to_process)
               /\ completed = Len(to_process)
               /\ valid_count = Cardinality({ i \in Submitted : Success(i) }) )
    /\ (pc = "draining") ~> (pc = "summary")

\* A summary after a run with a failure and a success.
C8_Witness ==
    /\ pc = "summary"
    /\ failed_count > 0
    /\ valid_count > 0

\* The call has ended with a return value of the documented shape.
ReturnsValueOrError(r) ==
    /\ ~ r.raised
    /\ \/ r.result = "record" /\ r.error = "None"
       \/ r.result = "None" /\ r.error \notin { "None", "unset" }

\* C9, as stated: for every combination, generate_one returns a record with
\* no error or no record with an error text, and never raises.
C9_NeverRaises ==
    gen.pc \in { "returned", "raised" }
    => gen.pc = "returned" /\ ReturnsValueOrError(gen.ret)

\* C9, amended: for every combination that carries every field the prompt
\* reads, generate_one returns a record with no error (exactly when the
\* payload is valid) or no record with an error text, and never raises; for a
\* combination that lacks a field it raises KeyError.
C9_ReturnsUnlessFieldMissing ==
    /\ (gen.pc \in { "returned", "raised" } /\ PromptFields(gen.drv) \subseteq gen.combo)
       => /\ gen.pc = "returned"
          /\ ReturnsValueOrError(gen.ret)
          /\ gen.ret.result = "record" <=> gen.resp = "payload_valid"
    /\ (gen.pc \in { "returned", "raised" } /\ ~ (PromptFields(gen.drv) \subseteq gen.combo))
       => gen.pc = "raised" /\ gen.ret.error = "KeyError"

\* A schema-validation failure has been returned as an error value.
C9_Witness ==
    /\ gen.pc = "returned"
    /\ gen.resp = "payload_bad_schema"
    /\ gen.ret.result = "None"
    /\ gen.ret.error = "ValidationError"

\* The lines of data.jsonl that earlier processes appended for index i.
EarlierLinesOf(i) == { k \in 1 .. Len(data) : data[k].idx = i /\ data[k].run < runs }

\* C11: every index a resumed run skips as already successful denotes, in the
\* ordering of all_inputs the run uses, the combination whose record was
\* appended to data.jsonl when the index was recorded.
C11_SkippedIndexSameCombo ==
    (pc # "idle" /\ ReadsProgress(driver, args))
    => \A i \in loaded :
         \A k \in EarlierLinesOf(i) :
           Cardinality(EarlierLinesOf(i)) = 1
           => data[k].combo = InputAt(seed, total, i)

\* C13: a run started with --timestamp starts from the empty completed set,
\* whatever progress.json holds, and no step of it changes progress.json.
C13_TimestampLeavesProgress ==
    [][ /\ (args.timestamp \/ args'.timestamp) => progress' = progress
        /\ (Submits /\ args'.timestamp) => (loaded' = {} /\ successful' = {})
      ]_vars

\* A timestamped run has reached its summary with successes that the
\* progress file left by an earlier run does not list.
C13_Witness ==
    /\ pc = "summary"
    /\ args.timestamp
    /\ valid_count > 0
    /\ progress.kind = "json"
    /\ ~ (successful \subseteq FileIndices(progress))

\* C14: every index progress.json stores is at least 0 and less than the
\* total stored in the same file.
C14_IndicesBelowTotal ==
    progress.kind = "json"
    => \A i \in FileIndices(progress) : 0 <= i /\ i < progress.total

\* A second run has rewritten progress.json, which lists the last index.
C14_Witness ==
    /\ runs = 2
    /\ progress.kind = "json"
    /\ (progress.total - 1) \in FileIndices(progress)
    /\ \E i \in HandledSuccesses : i \in FileIndices(progress)

\* C15: load_progress returns the set of the list stored under
\* successful_indices when the file has that key, otherwise the set of the
\* list under processed_indices, otherwise the empty set; it returns the
\* empty set when there is no file.
C15_LoadAcceptsEitherKey ==
    (gen.pc \in { "returned", "raised" } /\ progress.kind # "malformed")
    => /\ gen.pc = "returned"
       /\ progress.kind = "absent" => loaded = {}
       /\ (progress.kind = "json" /\ "successful_indices" \in DOMAIN progress)
          => loaded = { progress.successful_indices[k] :
                          k \in DOMAIN progress.successful_indices }
       /\ ( /\ progress.kind = "json"
            /\ "successful_indices" \notin DOMAIN progress
            /\ "processed_indices" \in DOMAIN progress )
          => loaded = { progress.processed_indices[k] :
                          k \in DOMAIN progress.processed_indices }
       /\ ( /\ progress.kind = "json"
            /\ "successful_indices" \notin DOMAIN progress
            /\ "processed_indices" \notin DOMAIN progress )
          => loaded = {}

\* A file with both keys and different lists has been loaded.
C15_Witness ==
    /\ gen.pc = "returned"
    /\ progress.kind = "json"
    /\ "successful_indices" \in DOMAIN progress
    /\ "processed_indices" \in DOMAIN progress
    /\ progress.successful_indices = << 1 >>
    /\ progress.processed_indices = << 0, 0 >>
    /\ loaded = { 1 }

\* A step in which a process is started.
StartsRun == pc = "idle" /\ runs' = runs + 1

\* After such a step: whether the process started is one that reads
\* progress.json (neither --no-resume nor --timestamp).
StartedReadsProgress ==
    IF pc' = "idle" THEN prev'.resumed ELSE ReadsProgress(driver, args')

\* After such a step: the process has ended without submitting a task, and
\* the three files are as they were.
AbortedUntouched ==
    /\ pc' = "idle"
    /\ to_process' = << >>
    /\ \A i \in Indices : task'[i] = "none" /\ reqTime'[i] = -1
    /\ data' = data /\ failed' = failed /\ progress' = progress
    /\ ts_data' = << >> /\ ts_failed' = << >>

\* C16, as stated: a run started on a directory whose progress.json does not
\* parse ends at startup: no task is submitted, no request is posted and no
\* file is written.
C16_MalformedIsFatal ==
    [][ (StartsRun /\ progress.kind = "malformed")
          => (AbortedUntouched /\ prev'.exit \in { "nokey", "badprogress" }) ]_vars

\* C16, amended: a run that reads progress.json (started with neither
\* --no-resume nor --timestamp) on a directory whose progress.json does not
\* parse ends at startup: no task is submitted, no request is posted and no
\* file is written.
C16_MalformedIsFatalWhenRead ==
    [][ (StartsRun /\ progress.kind = "malformed" /\ StartedReadsProgress)
          => (AbortedUntouched /\ prev'.exit \in { "nokey", "badprogress" }) ]_vars

\* A resumed run has died on a progress file that a terminated run left
\* truncated, beside the record that run had appended.
C16_Witness ==
    /\ pc = "idle"
    /\ prev.exit = "badprogress"
    /\ prev.resumed
    /\ progress.kind = "malformed"
    /\ Len(data) > 0

\* After a step that starts a process: whether its credential was set.
StartedWithKey == IF pc' = "idle" THEN prev'.key ELSE args'.key

\* C17: a process of either driver started without the credential ends at
\* startup: no task is submitted, no request is posted and the success file,
\* the failure file and progress.json are as they were.
C17_NoKeyNoWork ==
    [][ (StartsRun /\ ~ StartedWithKey)
          => (AbortedUntouched /\ prev'.exit = "nokey") ]_vars

\* A process has stopped for want of the credential on a directory that
\* holds records and a progress file.
C17_Witness ==
    /\ pc = "idle"
    /\ prev.exit = "nokey"
    /\ ~ prev.key
    /\ Len(data) > 0
    /\ progress.kind = "json"

\* The indices that are not in the completed set the run started from.
NotCompleted == { i \in Indices : i \notin loaded }

\* The count the run was asked for.
Requested == IF args.test THEN 5 ELSE args.num

\* C18: the indices a run has submitted are the min(n, |unprocessed|)
\* smallest indices that are not in the completed set it started from,
\* submitted in ascending order, where n is the requested count (5 with
\* --test); the tasks of exactly these indices exist.
C18_SubmitsPrefixOfUnprocessed ==
    pc # "idle"
    => /\ Len(to_process) = ( IF Requested < Cardinality(NotCompleted)
                              THEN Requested ELSE Cardinality(NotCompleted) )
       /\ \A k1, k2 \in 1 .. Len(to_process) :
            k1 < k2 => to_process[k1] < to_process[k2]
       /\ Submitted \subseteq NotCompleted
       /\ \A i \in Submitted : \A j \in NotCompleted \ Submitted : i < j
       /\ \A i \in Indices : (task[i] # "none") <=> (i \in Submitted)

\* Two were requested, index 1 was completed by an earlier run in which
\* index 0 failed, and only index 0 is submitted.
C18_Witness ==
    /\ pc = "draining"
    /\ ~ args.test
    /\ args.num = 2
    /\ loaded = { 1 }
    /\ to_process = << 0 >>

\* C19: in a run that reads progress.json (neither --no-resume nor
\* --timestamp), a rewrite of the file is the step that opens it for writing
\* followed by the step that dumps the completed set.  The contents before
\* the first step are within the completed set, the completed set does not
\* change in between, and the dump lists all of it: every index of the
\* previous contents is in the rewritten file.  No other step of such a run,
\* and no start of one, changes the file.
C19_RewriteKeepsIndices ==
    [][ /\ (pc # "idle" /\ pc' # "idle" /\ ReadsProgress(driver, args))
           => /\ (pc = "draining" /\ pc' = "saving")
                 => FileIndices(progress) \subseteq successful'
              /\ pc = "saving"
                 => /\ successful' = successful
                    /\ pc' \in { "saving", "draining" }
                    /\ pc' = "saving" => progress' = progress
                    /\ pc' = "draining"
                       => /\ progress'.kind = "json"
                          /\ successful \subseteq FileIndices(progress')
              /\ (pc # "saving" /\ pc' # "saving") => progress' = progress
        /\ (StartsRun /\ StartedReadsProgress) => progress' = progress
      ]_vars

\* A second resumed run has rewritten a progress file that listed an index:
\* the file lists that index and the new one.
C19_Witness ==
    /\ pc = "draining"
    /\ runs = 2
    /\ ReadsProgress(driver, args)
    /\ loaded # {}
    /\ HandledSuccesses # {}
    /\ progress.kind = "json"
    /\ FileIndices(progress) = loaded \cup HandledSuccesses

(***************************************************************************)
(* One run of pidgin_news.py in which the endpoint may give any of its     *)
(* answers to each request.                                                *)
(***************************************************************************)
NextAnswers ==
    \/ StartRun /\ runs' <= 1
    \/ \E i \in Indices : TaskStart(i)
    \/ \E i \in Indices : GateAcquire(i)
    \/ \E i \in Indices : GatePass(i)
    \/ \E i \in Indices : RequestWith(i, Responses)
    \/ \E i \in Indices : WriteAcquire(i)
    \/ \E i \in Indices : WriteAppend(i)
    \/ \E i \in Indices : Handle(i)
    \/ \E i \in Indices : SaveOpen(i)
    \/ SaveDump
    \/ Summary
    \/ Exit
    \/ Kill

SpecAnswers == Init /\ [][NextAnswers]_vars

\* A step in which the request of the task of index i is posted.
PostsRequest(i) == task[i] = "ready" /\ task'[i] # "ready"

\* C20: no index is submitted twice in a run, a request is posted for an
\* index only if none was posted for it earlier in the run, and a task whose
\* request was answered, with whatever outcome, never comes back to a point
\* before its request.
C20_OneRequestPerIndex ==
    [][ /\ \A k1, k2 \in 1 .. Len(to_process') :
             to_process'[k1] = to_process'[k2] => k1 = k2
        /\ \A i \in Indices :
             /\ PostsRequest(i) => reqTime[i] = -1
             /\ (reqTime[i] >= 0 /\ pc' # "idle")
                => /\ reqTime'[i] = reqTime[i]
                   /\ task'[i] \in { "got", "raised", "writing", "done", "handled" }
      ]_vars

\* Both tasks of a run have been handled after failures of different kinds.
C20_Witness ==
    /\ pc = "summary"
    /\ Len(to_process) = 2
    /\ ret[0].error = "Timeout"
    /\ ret[1].error = "ValidationError"
    /\ reqTime[0] >= 0
    /\ reqTime[1] >= 0

(***************************************************************************)
(* One run of pidgin_news.py to its summary on an empty directory, with    *)
(* ScenarioTotal valid combinations, the first TestCount of them requested *)
(* (by --test or by --num), against an endpoint whose answer is fixed by   *)
(* the index of the combination.                                           *)
(***************************************************************************)
ScenarioTotal == 56

\* The indices for which the stub endpoint answers with a valid payload.
StubSucceeds == { 0, 2, 4 }

StubAnswer(i) == IF i \in StubSucceeds THEN "payload_valid" ELSE "http_error"

ScenarioArgs ==
    { a \in [ test : BOOLEAN, no_resume : { FALSE }, timestamp : { FALSE },
              workers : WorkerCounts, num : { 1, TestCount } ] :
        a.test <=> a.num = 1 }

InitScenario == InitDirOf("news", ScenarioTotal)

NextScenario ==
    \/ StartRunFrom(ScenarioArgs) /\ pc' = "draining"
    \/ \E i \in Indices : TaskStart(i)
    \/ \E i \in Indices : GateAcquire(i)
    \/ \E i \in Indices : GatePass(i)
    \/ \E i \in Indices : RequestWith(i, { StubAnswer(i) })
    \/ \E i \in Indices : WriteAcquire(i)
    \/ \E i \in Indices : WriteAppend(i)
    \/ \E i \in Indices : Handle(i)
    \/ \E i \in Indices : SaveOpen(i)
    \/ SaveDump
    \/ Summary

SpecScenario == InitScenario /\ [][NextScenario]_vars

\* C12: the run of the scenario ends with exactly 3 lines in data.jsonl (one
\* whole line for each of 0, 2, 4), exactly 2 lines in failed.jsonl (one for
\* each of 1, 3) and a progress.json that lists exactly {0, 2, 4}.
C12_ScenarioOutcome ==
    pc = "summary"
    => /\ Len(data) = 3
       /\ { data[k].idx : k \in 1 .. Len(data) } = { 0, 2, 4 }
       /\ \A k \in 1 .. Len(data) : data[k].whole
       /\ Len(failed) = 2
       /\ { failed[k].idx : k \in 1 .. Len(failed) } = { 1, 3 }
       /\ progress.kind = "json"
       /\ progress.successful_indices = << 0, 2, 4 >>
       /\ progress.total = ScenarioTotal

\* The scenario has ended with two workers and the record of index 2 written
\* before that of index 0.
C12_Witness ==
    /\ pc = "summary"
    /\ total = ScenarioTotal
    /\ args.workers = 2
    /\ \E k1, k2 \in 1 .. Len(data) :
         k1 < k2 /\ data[k1].idx = 2 /\ data[k2].idx = 0

(***************************************************************************)
(* generate_inputs of pidgin_news.py (seven dimensions, four exclusion     *)
(* rules) and of pidgin_generator.py and pidgin_simple.py (six dimensions, *)
(* three rules), called on its own on any dimension lists of a bounded     *)
(* family, with other uses of the module-level random generator before     *)
(* and between the calls.  The variable gen holds the calls:               *)
(*   drv, dims, shuffle, seed   the program and the arguments              *)
(*   rng                        the state of the random generator          *)
(*   out, first                 the list last returned, and the first one  *)
(*   between                    whether the generator was used between     *)
(*                              the two calls                              *)
(***************************************************************************)
MaxDim == 2
MaxUses == 2
RngStates == 4

\* The lists of at most MaxDim different values of V.
ListsOver(V) ==
    { l \in UNION { [ 1 .. n -> V ] : n \in 0 .. MaxDim } :
        \A k1, k2 \in DOMAIN l : l[k1] = l[k2] => k1 = k2 }

\* The dimension lists tried, in the order of the arguments of
\* itertools.product; each holds the values the rules name and others.
DimsOf(drv) ==
    IF drv = "news"
    THEN { << topic, genre, setting, tone, speaker, time_period, complexity >> :
             topic \in { << "national_elections", "local_government" >> },
             genre \in ListsOver({ "news_report", "breaking_news", "expert_interview" }),
             setting \in { << "newsroom", "government_house" >>, << "corporate_office" >> },
             tone \in { << "authoritative" >> },
             speaker \in { << "news_anchor", "economic_analyst" >>,
                           << "investigative_journalist" >> },
             time_period \in ListsOver({ "breaking_current", "historical_context",
                                         "future_projection" }),
             complexity \in { << "technical_deep_dive", "case_study" >>,
                              << "executive_summary" >> } }
    ELSE { << topic, genre, setting, tone, speaker, time_period >> :
             topic \in { << "family_and_home", "market_and_trading" >> },
             genre \in ListsOver({ "story", "folklore", "news_report", "instructions" }),
             setting \in { << "lagos_urban", "market" >> },
             tone \in { << "happy_excited" >> },
             speaker \in { << "elder_wise" >>, << "young_adult", "parent" >> },
             time_period \in ListsOver({ "present_day", "past_memory", "future_hopes" }) }

\* is_valid_combo of pidgin_news.py with its last rule left out.
is_valid_combo_news_RuleDropped(c) ==
    LET genre == c[2]  setting == c[3]  time_period == c[6] IN
    IF genre = "breaking_news" /\ time_period = "historical_context" THEN FALSE
    ELSE IF genre = "breaking_news" /\ time_period = "future_projection" THEN FALSE
    ELSE IF genre = "expert_interview" /\ setting \in { "stock_exchange", "newsroom" }
    THEN FALSE
    ELSE TRUE

\* is_valid_combo of pidgin_news.py, on the tuple it unpacks.
is_valid_combo_news(c) ==
    LET genre == c[2]  setting == c[3]  speaker == c[5]  time_period == c[6]
        complexity == c[7]
    IN
    IF genre = "breaking_news" /\ time_period = "historical_context" THEN FALSE
    ELSE IF genre = "breaking_news" /\ time_period = "future_projection" THEN FALSE
    ELSE IF genre = "expert_interview" /\ setting \in { "stock_exchange", "newsroom" }
    THEN FALSE
    ELSE IF complexity = "technical_deep_dive"
            /\ speaker \in { "news_anchor", "business_correspondent" }
    THEN FALSE
    ELSE TRUE

\* is_valid_combination of pidgin_generator.py (is_valid_combo of pidgin_simple.py).
is_valid_combination(c) ==
    LET genre == c[2]  time_period == c[6] IN
    IF genre = "folklore" /\ time_period = "future_hopes" THEN FALSE
    ELSE IF genre = "news_report" /\ time_period = "past_memory" THEN FALSE
    ELSE IF genre = "instructions" /\ time_period = "past_memory" THEN FALSE
    ELSE TRUE

is_valid_combo(drv, c) ==
    IF drv = "news" THEN is_valid_combo_news(c) ELSE is_valid_combination(c)

\* list(itertools.product(...)): the tuples in the order in which the last
\* dimension varies fastest.
RECURSIVE Product(_)
Product(ds) ==
    IF ds = << >> THEN << << >> >>
    ELSE LET rest == Product(Tail(ds))
             m == Len(rest)
             h == Head(ds)
         IN [ p \in 1 .. (Len(h) * m) |->
                << h[((p - 1) \div m) + 1] >> \o rest[((p - 1) % m) + 1] ]

\* random.seed(sd): the state of the generator is fixed by sd alone.
Seeded(sd) == sd % RngStates

\* The call of random.seed left out: the generator stays in the state it is in.
SeedOrKeep_Keep(rng, sd) == rng

\* The state of the generator after the random.seed(seed) of generate_inputs.
SeedOrKeep(rng, sd) == Seeded(sd)

\* Any use of the generator (random.shuffle, random.choice) moves its state.
Advance(rng) == (rng + 1) % RngStates

\* random.shuffle(l) with the generator in state rng: a permutation of l
\* fixed by the state, modelled as the rotation by rng (see InputAt).
Shuffled(rng, l) ==
    IF l = << >> THEN l
    ELSE [ p \in 1 .. Len(l) |-> l[((p - 1 + rng) % Len(l)) + 1] ]

\* The input dictionary made of a tuple.
InputDict(drv, c) ==
    IF drv = "news"
    THEN [ topic |-> c[1], genre |-> c[2], setting |-> c[3], tone |-> c[4],
           speaker |-> c[5], time_period |-> c[6], complexity |-> c[7] ]
    ELSE [ topic |-> c[1], genre |-> c[2], setting |-> c[3], tone |-> c[4],
           speaker |-> c[5], time_period |-> c[6] ]

\* generate_inputs: the list returned and the state the generator is left in.
generate_inputs(drv, ds, shuffle, sd, rng) ==
    LET all_combos == Product(ds)
        valid == SelectSeq(all_combos, LAMBDA c : is_valid_combo(drv, c))
        state == IF shuffle THEN SeedOrKeep(rng, sd) ELSE rng
        order == IF shuffle THEN Shuffled(state, valid) ELSE valid
    IN [ out |-> [ p \in 1 .. Len(order) |-> InputDict(drv, order[p]) ],
         rng |-> IF shuffle THEN Advance(state) ELSE rng ]

InitInputs ==
    /\ DirIdle
    /\ driver = "news"
    /\ \E drv \in { "news", "generator" }, sd \in 1 .. MaxDay, sh \in BOOLEAN,
          r \in 0 .. (RngStates - 1) :
         \E ds \in DimsOf(drv) :
           gen = [ pc |-> "inputs", drv |-> drv, dims |-> ds, shuffle |-> sh,
                   seed |-> sd, rng |-> r, calls |-> 0, uses |-> 0,
                   between |-> FALSE, out |-> << >>, first |-> << >> ]

InputsCall ==
    /\ gen.pc = "inputs"
    /\ gen.calls < 2
    /\ LET res == generate_inputs(gen.drv, gen.dims, gen.shuffle, gen.seed, gen.rng) IN
       gen' = [ gen EXCEPT !.out = res.out,
                           !.first = IF gen.calls = 0 THEN res.out ELSE @,
                           !.rng = res.rng,
                           !.calls = @ + 1 ]
    /\ UNCHANGED << driver, total, today, runs, data, failed, progress, ts_data,
                    ts_failed, pc, args, seed, loaded, successful, to_process,
                    task, ret, cur, write_lock, rate_limit_lock,
                    last_request_time, clock, gateTime, reqTime, valid_count,
                    failed_count, completed, prev >>

\* Another use of the generator, such as the random.choice of generate_one.
RandomUse ==
    /\ gen.pc = "inputs"
    /\ gen.uses < MaxUses
    /\ gen' = [ gen EXCEPT !.rng = Advance(@), !.uses = @ + 1,
                           !.between = (gen.calls = 1) \/ @ ]
    /\ UNCHANGED << driver, total, today, runs, data, failed, progress, ts_data,
                    ts_failed, pc, args, seed, loaded, successful, to_process,
                    task, ret, cur, write_lock, rate_limit_lock,
                    last_request_time, clock, gateTime, reqTime, valid_count,
                    failed_count, completed, prev >>

NextInputs == InputsCall \/ RandomUse

SpecInputs == InitInputs /\ [][NextInputs]_vars

\* The Cartesian product of the dimension lists, as input dictionaries.
Cartesian(drv, ds) ==
    IF drv = "news"
    THEN { [ topic |-> a, genre |-> b, setting |-> c, tone |-> d, speaker |-> e,
             time_period |-> f, complexity |-> g ] :
             a \in Range(ds[1]), b \in Range(ds[2]), c \in Range(ds[3]),
             d \in Range(ds[4]), e \in Range(ds[5]), f \in Range(ds[6]),
             g \in Range(ds[7]) }
    ELSE { [ topic |-> a, genre |-> b, setting |-> c, tone |-> d, speaker |-> e,
             time_period |-> f ] :
             a \in Range(ds[1]), b \in Range(ds[2]), c \in Range(ds[3]),
             d \in Range(ds[4]), e \in Range(ds[5]), f \in Range(ds[6]) }

\* The exclusion rules, as stated for the input dictionaries.
Excluded(drv, r) ==
    IF drv = "news"
    THEN \/ r.genre = "breaking_news" /\ r.time_period = "historical_context"
         \/ r.genre = "breaking_news" /\ r.time_period = "future_projection"
         \/ r.genre = "expert_interview" /\ r.setting = "stock_exchange"
         \/ r.genre = "expert_interview" /\ r.setting = "newsroom"
         \/ r.complexity = "technical_deep_dive" /\ r.speaker = "news_anchor"
         \/ r.complexity = "technical_deep_dive" /\ r.speaker = "business_correspondent"
    ELSE \/ r.genre = "folklore" /\ r.time_period = "future_hopes"
         \/ r.genre = "news_report" /\ r.time_period = "past_memory"
         \/ r.genre = "instructions" /\ r.time_period = "past_memory"

RECURSIVE ProductOfSizes(_)
ProductOfSizes(ds) ==
    IF ds = << >> THEN 1 ELSE Len(Head(ds)) * ProductOfSizes(Tail(ds))

C22_SameSeedSameOrder ==
    (gen.pc = "inputs" /\ gen.calls = 2) => gen.out = gen.first

\* Two calls with shuffling, the generator used in between, and a list whose
\* shuffled order differs from its unshuffled order.
C22_Witness ==
    /\ gen.pc = "inputs"
    /\ gen.calls = 2
    /\ gen.between
    /\ gen.shuffle
    /\ Len(gen.out) > 1
    /\ gen.out = gen.first
    /\ gen.out # generate_inputs(gen.drv, gen.dims, FALSE, gen.seed, gen.rng).out

(***************************************************************************)
(* The escape repair of generate_one in pidgin_news.py, applied on its own *)
(* to the text between the quotes of a JSON string of the payload, and     *)
(* json.loads on that text.  A text is a sequence of characters; the       *)
(* variable gen holds the text and what the repair made of it.             *)
(***************************************************************************)
MaxText == 6

Backslash == "\\"

\* The characters tried: the backslash, a letter that is a valid escape, one
\* that is not, the u of a unicode escape and a hex digit.
Chars == { Backslash, "n", "s", "u", "0" }

HexDigits == { "0", "1", "2", "3", "4", "5", "6", "7", "8", "9",
               "a", "b", "c", "d", "e", "f", "A", "B", "C", "D", "E", "F" }

Texts == UNION { [ 1 .. n -> Chars ] : n \in 0 .. MaxText }

\* escaped.startswith("u")
StartsWithU(escaped) == Len(escaped) > 0 /\ escaped[1] = "u"

\* fix_escapes(match): escaped is match.group(1), the one character that the
\* group (.) of the pattern matched; rest is the text after the match.
fix_escapes(escaped, rest) ==
    IF escaped[1] \in { "\"", Backslash, "/", "b", "f", "n", "r", "t" }
    THEN << Backslash >> \o escaped
    ELSE IF StartsWithU(escaped) /\ Len(escaped) = 5
    THEN << Backslash >> \o escaped
    ELSE << Backslash, Backslash >> \o escaped

\* re.sub(r"\\(.)", fix_escapes, json_str): the matches are found from left
\* to right and do not overlap; what is not matched is copied.
RECURSIVE re_sub(_)
re_sub(t) ==
    IF t = << >> THEN << >>
    ELSE IF t[1] = Backslash /\ Len(t) >= 2
    THEN fix_escapes(<< t[2] >>, SubSeq(t, 3, Len(t))) \o re_sub(SubSeq(t, 3, Len(t)))
    ELSE << t[1] >> \o re_sub(Tail(t))

\* The character a valid one-letter escape denotes.
Unescaped(c) ==
    CASE c = "n" -> "<LF>"
      [] c = "t" -> "<TAB>"
      [] c = "r" -> "<CR>"
      [] c = "b" -> "<BS>"
      [] c = "f" -> "<FF>"
      [] OTHER   -> c

\* The character \uXXXX denotes; the model has one hex digit, so one such
\* character.
UnicodeChar(digits) == "<U+0000>"

\* json.loads on the contents of a string: the characters it denotes, or an
\* error on a backslash that starts no valid escape.
RECURSIVE json_string(_)
json_string(t) ==
    IF t = << >> THEN [ ok |-> TRUE, val |-> << >> ]
    ELSE IF t[1] # Backslash
    THEN LET r == json_string(Tail(t)) IN
         [ ok |-> r.ok, val |-> IF r.ok THEN << t[1] >> \o r.val ELSE << >> ]
    ELSE IF Len(t) < 2 THEN [ ok |-> FALSE, val |-> << >> ]
    ELSE IF t[2] \in { "\"", Backslash, "/", "b", "f", "n", "r", "t" }
    THEN LET r == json_string(SubSeq(t, 3, Len(t))) IN
         [ ok |-> r.ok, val |-> IF r.ok THEN << Unescaped(t[2]) >> \o r.val ELSE << >> ]
    ELSE IF t[2] = "u" /\ Len(t) >= 6 /\ \A k \in 3 .. 6 : t[k] \in HexDigits
    THEN LET r == json_string(SubSeq(t, 7, Len(t))) IN
         [ ok |-> r.ok,
           val |-> IF r.ok THEN << UnicodeChar(SubSeq(t, 3, 6)) >> \o r.val ELSE << >> ]
    ELSE [ ok |-> FALSE, val |-> << >> ]

InitEscapes ==
    /\ DirIdle
    /\ driver = "news"
    /\ \E t \in Texts : gen = [ pc |-> "repair", text |-> t, repaired |-> << >> ]

EscapeRepair ==
    /\ gen.pc = "repair"
    /\ gen' = [ gen EXCEPT !.pc = "repaired", !.repaired = re_sub(gen.text) ]
    /\ UNCHANGED << driver, total, today, runs, data, failed, progress, ts_data,
                    ts_failed, pc, args, seed, loaded, successful, to_process,
                    task, ret, cur, write_lock, rate_limit_lock,
                    last_request_time, clock, gateTime, reqTime, valid_count,
                    failed_count, completed, prev >>

NextEscapes == EscapeRepair

SpecEscapes == InitEscapes /\ [][NextEscapes]_vars

\* The text read with every backslash that starts no valid escape taken as a
\* literal backslash.
RECURSIVE Intended(_)
Intended(t) ==
    IF t = << >> THEN << >>
    ELSE IF t[1] # Backslash THEN << t[1] >> \o Intended(Tail(t))
    ELSE IF Len(t) >= 2 /\ t[2] \in { "\"", Backslash, "/", "b", "f", "n", "r", "t" }
    THEN << Unescaped(t[2]) >> \o Intended(SubSeq(t, 3, Len(t)))
    ELSE IF Len(t) >= 6 /\ t[2] = "u" /\ \A k \in 3 .. 6 : t[k] \in HexDigits
    THEN << UnicodeChar(SubSeq(t, 3, 6)) >> \o Intended(SubSeq(t, 7, Len(t)))
    ELSE << Backslash >> \o Intended(Tail(t))

\* The text does not end in a backslash that nothing follows.
RECURSIVE NoDanglingBackslash(_)
NoDanglingBackslash(t) ==
    IF t = << >> THEN TRUE
    ELSE IF t[1] # Backslash THEN NoDanglingBackslash(Tail(t))
    ELSE Len(t) >= 2 /\ NoDanglingBackslash(SubSeq(t, 3, Len(t)))

\* C23: a text with only valid escapes parses after the repair to what it
\* parses to without the repair, and a text with an invalid escape parses
\* after the repair, its backslash read as a literal backslash.
C23_RepairKeepsValidEscapes ==
    (gen.pc = "repaired" /\ NoDanglingBackslash(gen.text))
    => /\ json_string(gen.text).ok
          => json_string(gen.repaired) = json_string(gen.text)
       /\ json_string(gen.repaired).ok
       /\ json_string(gen.repaired).val = Intended(gen.text)

(***************************************************************************)
(* The payload extraction of generate_one in both drivers, from the text   *)
(* of the response to the record, applied to the three responses that      *)
(* carry one payload: bare, in a fenced block, in a fenced block tagged    *)
(* json.  A text is a sequence of characters, the four letters of json     *)
(* taken as one; the payload is the object of a title and a content,       *)
(* {"...","..."}, the two strings holding backticks, the word json and     *)
(* line feeds.  The variable gen holds the payload and the three results.  *)
(***************************************************************************)
MaxContent == 6

\* One backtick; the parser takes no backtick inside a string.
Backtick == "<BACKTICK>"

Tick3 == << Backtick, Backtick, Backtick >>
Tick3Json == << Backtick, Backtick, Backtick, "json" >>
LF == "<LF>"
Quote == "\""

ContentChars == { Backtick, "json", "a", LF }

Contents == UNION { [ 1 .. n -> ContentChars ] : n \in 0 .. MaxContent }

\* The text of the record of a title and a content.
PayloadOf(title, content) ==
    << "{", Quote >> \o title \o << Quote, ",", Quote >> \o content
        \o << Quote, "}" >>

\* Whether pat occurs in t at place k.
OccursAt(t, pat, k) ==
    /\ k >= 1
    /\ k + Len(pat) - 1 <= Len(t)
    /\ \A j \in 1 .. Len(pat) : t[k + j - 1] = pat[j]

\* pat in t
Contains(t, pat) == \E k \in 1 .. Len(t) : OccursAt(t, pat, k)

\* The place of the first occurrence of pat in t.
FirstAt(t, pat) ==
    CHOOSE k \in 1 .. Len(t) :
        OccursAt(t, pat, k) /\ \A j \in 1 .. (k - 1) : ~ OccursAt(t, pat, j)

\* t.split(pat)[0]
split0(t, pat) ==
    IF Contains(t, pat) THEN SubSeq(t, 1, FirstAt(t, pat) - 1) ELSE t

\* t.split(pat)[1], for a t that contains pat
split1(t, pat) ==
    split0(SubSeq(t, FirstAt(t, pat) + Len(pat), Len(t)), pat)

NoResult == [ ok |-> FALSE, title |-> << >>, content |-> << >> ]

\* str.strip()
RECURSIVE strip(_)
strip(t) ==
    IF t = << >> THEN t
    ELSE IF t[1] = LF THEN strip(Tail(t))
    ELSE IF t[Len(t)] = LF THEN strip(SubSeq(t, 1, Len(t) - 1))
    ELSE t

\* The extraction without its elif branch: an untagged fence is not looked for.
extract_json_NoPlainFence(text) ==
    IF Contains(text, Tick3Json)
    THEN strip(split0(split1(text, Tick3Json), Tick3))
    ELSE strip(text)

\* The if / elif / else that takes json_str out of text.
extract_json(text) ==
    IF Contains(text, Tick3Json)
    THEN strip(split0(split1(text, Tick3Json), Tick3))
    ELSE IF Contains(text, Tick3)
    THEN strip(split0(split1(text, Tick3), Tick3))
    ELSE strip(text)

\* re.sub(r"[\x00-\x1f\x7f-\x9f]", "", json_str)
clean_control(t) == SelectSeq(t, LAMBDA c : c # LF)

\* json.loads and model_validate on the text of an object of two strings:
\* the record, or the exception.
parse_record(t) ==
    LET quotes == { k \in 1 .. Len(t) : t[k] = Quote } IN
    IF \E k \in 3 .. (Len(t) - 4) :
         /\ quotes = { 2, k, k + 2, Len(t) - 1 }
         /\ t[1] = "{" /\ t[k + 1] = "," /\ t[Len(t)] = "}"
         /\ \A j \in (3 .. (k - 1)) \cup ((k + 3) .. (Len(t) - 2)) :
                t[j] \in ContentChars
    THEN LET k == CHOOSE k \in 3 .. (Len(t) - 4) : t[k] = Quote IN
         [ ok |-> TRUE, title |-> SubSeq(t, 3, k - 1),
           content |-> SubSeq(t, k + 3, Len(t) - 2) ]
    ELSE NoResult

\* From the text of the response to the record; pidgin_news.py repairs the
\* escapes on the way.
record_of(drv, text) ==
    LET json_str == clean_control(extract_json(text)) IN
    parse_record(IF drv = "news" THEN re_sub(json_str) ELSE json_str)

\* The three responses that carry the payload.
Bare(payload) == payload
Fenced(payload) == Tick3 \o << LF >> \o payload \o << LF >> \o Tick3
FencedJson(payload) == Tick3Json \o << LF >> \o payload \o << LF >> \o Tick3

InitExtract ==
    /\ DirIdle
    /\ driver = "news"
    /\ \E drv \in { "news", "simple" }, c \in Contents, k \in 0 .. MaxContent :
         /\ k <= Len(c)
         /\ gen = [ pc |-> "extract", drv |-> drv,
                 title |-> SubSeq(c, 1, k), content |-> SubSeq(c, k + 1, Len(c)),
                 payload |-> PayloadOf(SubSeq(c, 1, k), SubSeq(c, k + 1, Len(c))),
                 bare |-> NoResult, fenced |-> NoResult, fenced_json |-> NoResult ]

ExtractCall ==
    /\ gen.pc = "extract"
    /\ gen' = [ gen EXCEPT !.pc = "extracted",
                           !.bare = record_of(gen.drv, Bare(gen.payload)),
                           !.fenced = record_of(gen.drv, Fenced(gen.payload)),
                           !.fenced_json = record_of(gen.drv, FencedJson(gen.payload)) ]
    /\ UNCHANGED << driver, total, today, runs, data, failed, progress, ts_data,
                    ts_failed, pc, args, seed, loaded, successful, to_process,
                    task, ret, cur, write_lock, rate_limit_lock,
                    last_request_time, clock, gateTime, reqTime, valid_count,
                    failed_count, completed, prev >>

NextExtract == ExtractCall

SpecExtract == InitExtract /\ [][NextExtract]_vars

\* C24: the response that is the bare payload, the one that wraps it in a
\* fenced block and the one that wraps it in a fenced block tagged json give
\* the same record (or all three give none); a payload without three
\* backticks in a row gives the record of its title and content.
C24_FencedEqualsBare ==
    gen.pc = "extracted"
    => /\ gen.fenced = gen.bare
       /\ gen.fenced_json = gen.bare
       /\ ~ Contains(gen.payload, Tick3)
          => gen.bare = [ ok |-> TRUE, title |-> clean_control(gen.title),
                          content |-> clean_control(gen.content) ]

\* The three responses of a payload without backticks have given its record.
C24_Witness ==
    /\ gen.pc = "extracted"
    /\ gen.title = << "a", LF >>
    /\ gen.content = << "json", Backtick, "a" >>
    /\ gen.bare.ok
    /\ gen.fenced.ok
    /\ gen.fenced_json.ok
    /\ gen.fenced_json.content = << "json", Backtick, "a" >>

\* Whether the lines of before are the first lines of after, in order.
IsPrefix(before, after) ==
    /\ Len(before) <= Len(after)
    /\ SubSeq(after, 1, Len(before)) = before

\* A step of, into or out of a run started without --no-resume, or the whole
\* of such a run when it ends as it starts.
ResumedRunStep ==
    \/ pc' # "idle" /\ ~ args'.no_resume
    \/ pc # "idle" /\ ~ args.no_resume
    \/ StartsRun /\ pc' = "idle" /\ prev'.resumed

\* C25: in a resumed run the lines that data.jsonl and failed.jsonl held are
\* kept, unchanged and in order, as the first lines of each file: every step
\* of the run leaves each file as it was or with lines added at its end.
C25_AppendOnlyWhenResumed ==
    [][ ResumedRunStep => IsPrefix(data, data') /\ IsPrefix(failed, failed') ]_vars

\* A resumed run has added a line to data.jsonl after a line of an earlier
\* run, and failed.jsonl holds a line of an earlier run.
C25_Witness ==
    /\ pc # "idle"
    /\ ~ args.no_resume
    /\ ~ args.timestamp
    /\ Len(data) >= 2
    /\ data[1].run < runs
    /\ data[Len(data)].run = runs
    /\ Len(failed) >= 1
    /\ failed[1].run < runs

(***************************************************************************)
(* One run of either driver in which the endpoint may give any of its     *)
(* answers to each request.                                                *)
(***************************************************************************)
NextOutcomes == NextAnswers

SpecOutcomes == InitLive /\ [][NextOutcomes]_vars

\* The two files the running process appends to.
RunData == IF args.timestamp THEN ts_data ELSE data
RunFailed == IF args.timestamp THEN ts_failed ELSE failed

\* The places of the lines the running process appended to f for index i.
LinesOf(f, i) == { k \in 1 .. Len(f) : f[k].idx = i /\ f[k].run = runs }

\* process_combo has returned for index i.
HasReturned(i) == task[i] \in { "done", "handled" }

\* generate_one gave a record for index i.
Generated(i) == ret[i].result = "record"

\* C26: each index submitted in a run has no line of the run until its
\* process_combo returns and exactly one from then on: in the success file
\* if and only if generate_one gave a record, otherwise in the failure file,
\* never in both; the boolean returned is true exactly when the line is in
\* the success file; when main reaches the summary every submitted index
\* has its line.
C26_OneLinePerIndex ==
    pc # "idle"
    => \A i \in Range(to_process) :
         LET s == Cardinality(LinesOf(RunData, i))
             f == Cardinality(LinesOf(RunFailed, i))
         IN
         /\ s + f <= 1
         /\ HasReturned(i) <=> s + f = 1
         /\ HasReturned(i) => /\ s = 1 <=> Generated(i)
                              /\ f = 1 <=> ~ Generated(i)
                              /\ Success(i) <=> s = 1
         /\ pc = "summary" => s + f = 1

\* A run with two workers has ended with one line in the success file and
\* one in the failure file, for two different indices.
C26_Witness ==
    /\ pc = "summary"
    /\ args.workers = 2
    /\ \E i, j \in Range(to_process) :
         /\ i # j
         /\ Cardinality(LinesOf(RunData, i)) = 1
         /\ Cardinality(LinesOf(RunFailed, j)) = 1
         /\ Success(i)
         /\ ~ Success(j)

\* The tasks that are between the start of process_combo and its return.
Executing == { i \in Indices : Running(i) }

\* C27: in a run with worker count w at most w tasks are executing.
C27_AtMostWorkersExecuting ==
    pc # "idle" => Cardinality(Executing) <= args.workers

\* One worker for two submitted tasks: one is executing, the other waits in
\* the queue of the pool.
C27_Witness ==
    /\ pc = "draining"
    /\ args.workers = 1
    /\ Len(to_process) = 2
    /\ Cardinality(Executing) = 1
    /\ \E i \in Range(to_process) : task[i] = "queued"

(***************************************************************************)
(* Runs of pidgin_news.py in which a write to a file may fail: the open or *)
(* the write inside "with write_lock:" raises OSError.  The with statement *)
(* releases the lock as the exception leaves the block.  In a worker the   *)
(* exception ends process_combo and is stored in the future; in main it    *)
(* leaves the as_completed loop, as does the exception future.result()     *)
(* re-raises.  The with block of the executor then waits for every         *)
(* submitted task before the exception ends the process.                   *)
(***************************************************************************)
\* Kept as acquired: the lock is not released when the block raises.
LockAfterException_StillHeld == TRUE

\* Whether write_lock is held after an exception has left its with block.
LockAfterException == FALSE

\* The append of process_combo raises.
WriteFails(i) ==
    /\ Alive
    /\ task[i] = "writing"
    /\ write_lock' = LockAfterException
    /\ task' = [ task EXCEPT ![i] = "raised" ]
    /\ UNCHANGED << driver, total, today, runs, data, failed, progress, ts_data,
                    ts_failed, pc, args, seed, successful, to_process, ret, cur,
                    rate_limit_lock, last_request_time, clock, reqTime,
                    valid_count, failed_count, completed, prev, gen, loaded,
                    gateTime >>

\* json.dump of save_progress raises after the file was opened.
SaveFails ==
    /\ pc = "saving"
    /\ write_lock' = LockAfterException
    /\ cur' = -1
    /\ pc' = "unwinding"
    /\ UNCHANGED << driver, total, today, runs, data, failed, progress, ts_data,
                    ts_failed, args, seed, successful, to_process, task, ret,
                    rate_limit_lock, last_request_time, clock, reqTime,
                    valid_count, failed_count, completed, prev, gen, loaded,
                    gateTime >>

\* future.result() re-raises the exception of a task.
ResultRaises(i) ==
    /\ pc = "draining"
    /\ task[i] = "raised"
    /\ pc' = "unwinding"
    /\ UNCHANGED << driver, total, today, runs, data, failed, progress, ts_data,
                    ts_failed, args, seed, successful, to_process, task, ret, cur,
                    write_lock, rate_limit_lock, last_request_time, clock, reqTime,
                    valid_count, failed_count, completed, prev, gen, loaded,
                    gateTime >>

\* The tasks of the pool that have not ended.
Unfinished ==
    { i \in Range(to_process) : task[i] \notin { "done", "handled", "raised" } }

\* The executor has waited for its tasks: the exception ends the process.
Crash ==
    /\ pc = "unwinding"
    /\ Unfinished = {}
    /\ End(args, args.key, "crashed")
    /\ UNCHANGED << driver, total, today, runs, data, failed, progress >>

\* The steps of the threads of a process.
FaultStep ==
    \/ \E i \in Indices : TaskStart(i)
    \/ \E i \in Indices : GateAcquire(i)
    \/ \E i \in Indices : GatePass(i)
    \/ \E i \in Indices : Request(i)
    \/ \E i \in Indices : WriteAcquire(i)
    \/ \E i \in Indices : WriteAppend(i)
    \/ \E i \in Indices : WriteFails(i)
    \/ \E i \in Indices : Handle(i)
    \/ \E i \in Indices : SaveOpen(i)
    \/ \E i \in Indices : ResultRaises(i)
    \/ SaveDump
    \/ SaveFails
    \/ Summary
    \/ Exit
    \/ Crash

NextFaults ==
    \/ StartRun
    \/ FaultStep
    \/ Kill

SpecFaults == Init /\ [][NextFaults]_vars

\* The threads of the process: main and the task of each index.
MainThread == -1
Threads == { MainThread } \cup Indices
HoldsWrite(t) == IF t = MainThread THEN pc = "saving" ELSE task[t] = "writing"
HoldsRate(t) == IF t = MainThread THEN FALSE ELSE task[t] = "gate"

\* C28: no thread holds write_lock and rate_limit_lock together; a lock is
\* held exactly while one thread is inside its with block, so it is free
\* after every way out of the block, an exception included; and whenever a
\* process runs, one of its threads can take a step.
C28_LocksIndependentNoDeadlock ==
    /\ \A t \in Threads : ~ (HoldsWrite(t) /\ HoldsRate(t))
    /\ write_lock <=> \E t \in Threads : HoldsWrite(t)
    /\ rate_limit_lock <=> \E t \in Threads : HoldsRate(t)
    /\ Cardinality({ t \in Threads : HoldsWrite(t) }) <= 1
    /\ Cardinality({ t \in Threads : HoldsRate(t) }) <= 1
    /\ pc # "idle" => ENABLED FaultStep

\* A write of a worker has failed while another task still has to write: the
\* lock is free and the other task goes on.
C28_Witness ==
    /\ pc \in { "draining", "unwinding" }
    /\ ~ write_lock
    /\ \E i, j \in Range(to_process) :
         /\ task[i] = "raised"
         /\ task[j] = "got"

(***************************************************************************)
(* Runs of pidgin_news.py without --timestamp, in any mix of --test and    *)
(* --no-resume, each run to its end or terminated.                         *)
(***************************************************************************)
PlainArgs == { a \in ArgSpace("news") : ~ a.timestamp }

NextPlain ==
    \/ StartRunFrom(PlainArgs)
    \/ \E i \in Indices : TaskStart(i)
    \/ \E i \in Indices : GateAcquire(i)
    \/ \E i \in Indices : GatePass(i)
    \/ \E i \in Indices : Request(i)
    \/ \E i \in Indices : WriteAcquire(i)
    \/ \E i \in Indices : WriteAppend(i)
    \/ \E i \in Indices : Handle(i)
    \/ \E i \in Indices : SaveOpen(i)
    \/ SaveDump
    \/ Summary
    \/ Exit
    \/ Kill

SpecPlain == Init /\ [][NextPlain]_vars

\* The indices that have a line in data.jsonl.
Recorded == { data[k].idx : k \in 1 .. Len(data) }

\* C29: every index listed in progress.json has a record in data.jsonl.
C29_ListedIndicesHaveRecords ==
    FileIndices(progress) \subseteq Recorded

\* The submitted indices for which generate_one gave a record in this run.
GeneratedNow == { i \in Range(to_process) : Generated(i) }

\* A step of the main thread in the as_completed loop: a finished task is
\* handled, or save_progress is entered or left.
MainLoopStep ==
    \/ pc = "saving"
    \/ \E i \in Indices : task[i] = "done" /\ (task'[i] = "handled" \/ pc' = "saving")

\* C30: when a resumed run without --timestamp reaches its summary,
\* progress.json lists the loaded indices and the indices whose generation
\* succeeded in the run, and no others; during a run the completed set and
\* progress.json change only in steps of the main thread.
C30_ProgressIsLoadedPlusSuccesses ==
    /\ [] ( (pc = "summary" /\ ReadsProgress(driver, args))
            => FileIndices(progress) = loaded \cup GeneratedNow )
    /\ [][ (pc # "idle" /\ pc' # "idle"
            /\ (successful' # successful \/ progress' # progress))
           => MainLoopStep ]_vars

\* A resumed run that loaded a non-empty set has ended with a new success.
C30_Witness ==
    /\ pc = "summary"
    /\ ReadsProgress(driver, args)
    /\ loaded # {}
    /\ GeneratedNow # {}
    /\ ~ (GeneratedNow \subseteq loaded)
    /\ FileIndices(progress) = loaded \cup GeneratedNow

\* A run started with --no-resume and without --timestamp.
FreshStart == args.no_resume /\ ~ args.timestamp

\* C31: when a fresh-start run reaches its summary, progress.json lists
\* exactly the indices whose generation succeeded in the run, none
\* succeeding included.
C31_FreshStartListsOnlyItsSuccesses ==
    (pc = "summary" /\ FreshStart) => FileIndices(progress) = GeneratedNow

(***************************************************************************)
(* save_progress followed by load_progress, each called on its own, for   *)
(* either driver: gen holds the arguments of save_progress; the directory *)
(* may hold any file before the call.                                      *)
(***************************************************************************)
MaxIndex == 3
MaxTotal == 3

SavedSeeds == { 1, MaxDay, SimpleSeed }

InitRoundTrip ==
    /\ driver \in { "news", "simple" }
    /\ total = NumCombos
    /\ today = 1
    /\ runs = 0
    /\ data = << >>
    /\ failed = << >>
    /\ ts_data = << >>
    /\ ts_failed = << >>
    /\ pc = "idle"
    /\ args = NoArgs
    /\ FreshMemory
    /\ prev = NoPrev
    /\ progress \in { Absent, Malformed }
    /\ \E S \in SUBSET (0 .. MaxIndex), tot \in 0 .. MaxTotal, sd \in SavedSeeds :
         gen = [ pc |-> "save", S |-> S, total |-> tot, seed |-> sd ]

\* save_progress: the file is opened for writing and the object is dumped.
\* pidgin_simple.py takes no seed.
SaveCall ==
    /\ gen.pc = "save"
    /\ progress' = dump_progress(driver, gen.S, gen.total, gen.seed)
    /\ gen' = [ gen EXCEPT !.pc = "load" ]
    /\ UNCHANGED << driver, total, today, runs, data, failed, ts_data, ts_failed,
                    pc, args, seed, loaded, successful, to_process, task, ret,
                    cur, write_lock, rate_limit_lock, last_request_time, clock,
                    gateTime, reqTime, valid_count, failed_count, completed,
                    prev >>

NextRoundTrip ==
    \/ SaveCall
    \/ LoadCall

SpecRoundTrip == InitRoundTrip /\ [][NextRoundTrip]_vars

\* The list of indices a written file stores.
StoredList(p) ==
    IF "successful_indices" \in DOMAIN p THEN p.successful_indices
    ELSE p.processed_indices

\* Ascending without duplicates.
StrictlyAscending(l) == \A k \in 1 .. (Len(l) - 1) : l[k] < l[k + 1]

\* load_progress has returned after save_progress(S, total, seed).
RoundTripDone == gen.pc = "returned" /\ "S" \in DOMAIN gen

\* C32: load_progress after save_progress(S, total, seed) returns exactly S
\* and the file stores the indices of S in ascending order without
\* duplicates, with the total; pidgin_news.py also stores the seed and
\* successful_count = |S|, pidgin_simple.py stores the seed 42 and no
\* successful_count.
C32_RoundTripPerDriver ==
    RoundTripDone
    => /\ loaded = gen.S
       /\ progress.kind = "json"
       /\ Range(StoredList(progress)) = gen.S
       /\ StrictlyAscending(StoredList(progress))
       /\ progress.total = gen.total
       /\ driver = "news"
          => /\ "successful_count" \in DOMAIN progress
             /\ progress.successful_count = Cardinality(gen.S)
             /\ progress.seed = gen.seed
       /\ driver = "simple"
          => /\ "successful_count" \notin DOMAIN progress
             /\ progress.seed = SimpleSeed

\* The statement for both drivers alike: the file written always carries
\* successful_count = |S|.
C32_RoundTripWithCount ==
    RoundTripDone
    => /\ loaded = gen.S
       /\ StrictlyAscending(StoredList(progress))
       /\ "successful_count" \in DOMAIN progress
       /\ progress.successful_count = Cardinality(gen.S)

\* pidgin_simple.py has saved and loaded a set of three indices given with
\* a seed other than 42.
C32_Witness ==
    /\ RoundTripDone
    /\ driver = "simple"
    /\ gen.S = { 0, 2, 3 }
    /\ gen.seed # SimpleSeed
    /\ loaded = { 0, 2, 3 }
    /\ progress.processed_indices = << 0, 2, 3 >>

====
